---- MODULE Spec2Model ----
(***************************************************************************)
(* AzureCosmosDBLoader (langchain/document_loaders/azure_cosmosdb.py).     *)
(*                                                                         *)
(* Text is a sequence of one-character strings.  A JSON / Python value is  *)
(* a record [t, s, n, kids]: t is the Python type name, s the characters   *)
(* of a str, n the number of an int (0/1 for a bool), kids the entries of  *)
(* a dict (records [k, val], in insertion order) or of a list.             *)
(***************************************************************************)
EXTENDS Integers, Sequences, FiniteSets, TLC

VARIABLES loader, sdk, pc, query_result, idx, docs, i, result, exc, calls,
          tpc, sample, page

vars == <<loader, sdk, pc, query_result, idx, docs, i, result, exc, calls,
          tpc, sample, page>>

loadVars == <<sdk, pc, query_result, idx, docs, i, result, exc, calls>>
textVars == <<tpc, sample, page>>

\* ------------------------------------------------------------------ bounds
MaxStrLen == 2
MaxKids == 2
MaxItems == 2
MaxCalls == 2

\* ------------------------------------------------------------------ values
Str(chars) == [t |-> "str", s |-> chars, n |-> 0, kids |-> <<>>]
Int_(k) == [t |-> "int", s |-> <<>>, n |-> k, kids |-> <<>>]
Bool(b) == [t |-> "bool", s |-> <<>>, n |-> IF b THEN 1 ELSE 0, kids |-> <<>>]
None == [t |-> "NoneType", s |-> <<>>, n |-> 0, kids |-> <<>>]
Dict(kv) == [t |-> "dict", s |-> <<>>, n |-> 0, kids |-> kv]
List(xs) == [t |-> "list", s |-> <<>>, n |-> 0, kids |-> xs]
KV(key, v) == [k |-> key, val |-> v]

isinstance(v, typ) == v.t = typ

\* Python truth value of a value (`x if content else y`).
Truthy(v) ==
    IF v.t = "str" THEN v.s # <<>>
    ELSE IF v.t \in {"int", "bool"} THEN v.n # 0
    ELSE IF v.t \in {"dict", "list"} THEN v.kids # <<>>
    ELSE FALSE

\* ------------------------------------------------------------------ text
Digits == <<"0", "1", "2", "3", "4", "5", "6", "7", "8", "9">>

RECURSIVE NatChars(_)
NatChars(k) ==
    IF k < 10 THEN <<Digits[k + 1]>>
    ELSE NatChars(k \div 10) \o <<Digits[(k % 10) + 1]>>

IntChars(k) == IF k < 0 THEN <<"-">> \o NatChars(0 - k) ELSE NatChars(k)

IsDigit(c) == \E d \in 1..10 : Digits[d] = c
DigitVal(c) == (CHOOSE d \in 1..10 : Digits[d] = c) - 1

\* ------------------------------------------------------------------ json.dumps
\* json.dumps with its defaults: separators ", " and ": ", strings in double
\* quotes with the quote and the backslash escaped.
RECURSIVE JsonEscape(_)
JsonEscape(chars) ==
    IF chars = <<>> THEN <<>>
    ELSE LET c == Head(chars) IN
         (IF c = "\"" THEN <<"\\", "\"">>
          ELSE IF c = "\\" THEN <<"\\", "\\">>
          ELSE <<c>>) \o JsonEscape(Tail(chars))

JsonString(chars) == <<"\"">> \o JsonEscape(chars) \o <<"\"">>

RECURSIVE json_dumps(_)
RECURSIVE JsonMembers(_)
RECURSIVE JsonElements(_)
JsonMembers(kv) ==
    IF kv = <<>> THEN <<>>
    ELSE JsonString(Head(kv).k) \o <<":", " ">> \o json_dumps(Head(kv).val)
         \o (IF Tail(kv) = <<>> THEN <<>> ELSE <<",", " ">> \o JsonMembers(Tail(kv)))

JsonElements(xs) ==
    IF xs = <<>> THEN <<>>
    ELSE json_dumps(Head(xs))
         \o (IF Tail(xs) = <<>> THEN <<>> ELSE <<",", " ">> \o JsonElements(Tail(xs)))

json_dumps(v) ==
    IF v.t = "str" THEN JsonString(v.s)
    ELSE IF v.t = "int" THEN IntChars(v.n)
    ELSE IF v.t = "bool" THEN (IF v.n = 1 THEN <<"t", "r", "u", "e">>
                               ELSE <<"f", "a", "l", "s", "e">>)
    ELSE IF v.t = "NoneType" THEN <<"n", "u", "l", "l">>
    ELSE IF v.t = "dict" THEN <<"{">> \o JsonMembers(v.kids) \o <<"}">>
    ELSE <<"[">> \o JsonElements(v.kids) \o <<"]">>

\* ------------------------------------------------------------------ json.loads
\* A recursive-descent JSON parser.  A parse result is [ok, val, pos]: pos is
\* the position after the value.  Numbers are integers.
ParseFail == [ok |-> FALSE, val |-> None, pos |-> 0]
Parsed(v, p) == [ok |-> TRUE, val |-> v, pos |-> p]

IsSpace(c) == c \in {" ", "\t", "\n", "\r"}

RECURSIVE SkipSpace(_, _)
SkipSpace(txt, p) ==
    IF p <= Len(txt) /\ IsSpace(txt[p]) THEN SkipSpace(txt, p + 1) ELSE p

At(txt, p) == IF p <= Len(txt) THEN txt[p] ELSE "EOF"

Matches(txt, p, word) ==
    /\ p + Len(word) - 1 <= Len(txt)
    /\ \A j \in 1..Len(word) : txt[p + j - 1] = word[j]

\* The characters of a string literal whose opening quote is before p.
RECURSIVE ParseChars(_, _, _)
ParseChars(txt, p, acc) ==
    IF p > Len(txt) THEN ParseFail
    ELSE IF txt[p] = "\"" THEN Parsed(Str(acc), p + 1)
    ELSE IF txt[p] = "\\" THEN
        IF At(txt, p + 1) \in {"\"", "\\", "/"}
        THEN ParseChars(txt, p + 2, Append(acc, txt[p + 1]))
        ELSE ParseFail
    ELSE ParseChars(txt, p + 1, Append(acc, txt[p]))

RECURSIVE ParseDigits(_, _, _)
ParseDigits(txt, p, acc) ==
    IF IsDigit(At(txt, p)) THEN ParseDigits(txt, p + 1, 10 * acc + DigitVal(txt[p]))
    ELSE Parsed(Int_(acc), p)

ParseNat(txt, p) ==
    IF ~IsDigit(At(txt, p)) THEN ParseFail
    ELSE IF txt[p] = "0" THEN Parsed(Int_(0), p + 1)
    ELSE ParseDigits(txt, p, 0)

ParseNumber(txt, p) ==
    IF At(txt, p) = "-"
    THEN LET r == ParseNat(txt, p + 1) IN
         IF r.ok THEN Parsed(Int_(0 - r.val.n), r.pos) ELSE ParseFail
    ELSE ParseNat(txt, p)

\* dict[key] = v: a repeated key keeps its place and takes the last value.
RECURSIVE DictPut(_, _, _)
DictPut(kv, key, v) ==
    IF kv = <<>> THEN <<KV(key, v)>>
    ELSE IF Head(kv).k = key THEN <<KV(key, v)>> \o Tail(kv)
    ELSE <<Head(kv)>> \o DictPut(Tail(kv), key, v)

RECURSIVE ParseValue(_, _)
RECURSIVE ParseMembers(_, _, _)
RECURSIVE ParseElements(_, _, _)
\* p is at the first character of a member's key (after "{" or ",").
ParseMembers(txt, p, acc) ==
    LET q == SkipSpace(txt, p) IN
    IF At(txt, q) # "\"" THEN ParseFail
    ELSE LET key == ParseChars(txt, q + 1, <<>>) IN
         IF ~key.ok THEN ParseFail
         ELSE LET c == SkipSpace(txt, key.pos) IN
              IF At(txt, c) # ":" THEN ParseFail
              ELSE LET v == ParseValue(txt, c + 1) IN
                   IF ~v.ok THEN ParseFail
                   ELSE LET e == SkipSpace(txt, v.pos)
                            kv == DictPut(acc, key.val.s, v.val)
                        IN IF At(txt, e) = "," THEN ParseMembers(txt, e + 1, kv)
                           ELSE IF At(txt, e) = "}" THEN Parsed(Dict(kv), e + 1)
                           ELSE ParseFail

ParseElements(txt, p, acc) ==
    LET v == ParseValue(txt, p) IN
    IF ~v.ok THEN ParseFail
    ELSE LET e == SkipSpace(txt, v.pos)
             xs == Append(acc, v.val)
         IN IF At(txt, e) = "," THEN ParseElements(txt, e + 1, xs)
            ELSE IF At(txt, e) = "]" THEN Parsed(List(xs), e + 1)
            ELSE ParseFail

ParseValue(txt, p) ==
    LET q == SkipSpace(txt, p)
        c == At(txt, q)
    IN IF c = "\"" THEN ParseChars(txt, q + 1, <<>>)
       ELSE IF c = "{" THEN
            (IF At(txt, SkipSpace(txt, q + 1)) = "}"
             THEN Parsed(Dict(<<>>), SkipSpace(txt, q + 1) + 1)
             ELSE ParseMembers(txt, q + 1, <<>>))
       ELSE IF c = "[" THEN
            (IF At(txt, SkipSpace(txt, q + 1)) = "]"
             THEN Parsed(List(<<>>), SkipSpace(txt, q + 1) + 1)
             ELSE ParseElements(txt, q + 1, <<>>))
       ELSE IF Matches(txt, q, <<"t", "r", "u", "e">>) THEN Parsed(Bool(TRUE), q + 4)
       ELSE IF Matches(txt, q, <<"f", "a", "l", "s", "e">>) THEN Parsed(Bool(FALSE), q + 5)
       ELSE IF Matches(txt, q, <<"n", "u", "l", "l">>) THEN Parsed(None, q + 4)
       ELSE ParseNumber(txt, q)

\* json.loads(text): [ok, val]; ok is FALSE where json.loads raises.
json_loads(txt) ==
    LET r == ParseValue(txt, 1) IN
    IF r.ok /\ SkipSpace(txt, r.pos) = Len(txt) + 1
    THEN [ok |-> TRUE, val |-> r.val]
    ELSE [ok |-> FALSE, val |-> None]

\* ------------------------------------------------------------------ str()
\* repr of a str: single quotes, the backslash doubled.
RECURSIVE ReprEscape(_)
ReprEscape(chars) ==
    IF chars = <<>> THEN <<>>
    ELSE (IF Head(chars) = "\\" THEN <<"\\", "\\">> ELSE <<Head(chars)>>)
         \o ReprEscape(Tail(chars))

RECURSIVE repr(_)
RECURSIVE ReprMembers(_)
RECURSIVE ReprElements(_)
ReprMembers(kv) ==
    IF kv = <<>> THEN <<>>
    ELSE repr(Str(Head(kv).k)) \o <<":", " ">> \o repr(Head(kv).val)
         \o (IF Tail(kv) = <<>> THEN <<>> ELSE <<",", " ">> \o ReprMembers(Tail(kv)))

ReprElements(xs) ==
    IF xs = <<>> THEN <<>>
    ELSE repr(Head(xs))
         \o (IF Tail(xs) = <<>> THEN <<>> ELSE <<",", " ">> \o ReprElements(Tail(xs)))

repr(v) ==
    IF v.t = "str" THEN <<"'">> \o ReprEscape(v.s) \o <<"'">>
    ELSE IF v.t = "int" THEN IntChars(v.n)
    ELSE IF v.t = "bool" THEN (IF v.n = 1 THEN <<"T", "r", "u", "e">>
                               ELSE <<"F", "a", "l", "s", "e">>)
    ELSE IF v.t = "NoneType" THEN <<"N", "o", "n", "e">>
    ELSE IF v.t = "dict" THEN <<"{">> \o ReprMembers(v.kids) \o <<"}">>
    ELSE <<"[">> \o ReprElements(v.kids) \o <<"]">>

\* str(v): the characters themselves for a str, repr(v) for the rest.
str(v) == IF v.t = "str" THEN v.s ELSE repr(v)

\* ------------------------------------------------------------------ jq
\* The filter programs of the model.
Filters == {".", ".[]", "empty"}

jq_compile(jq_schema) == [program |-> jq_schema]

\* program.input(value), iterated: the samples it yields, in order, and
\* whether the iteration then raises.
jq_input(compiled, value) ==
    IF compiled.program = "." THEN [out |-> <<value>>, err |-> FALSE]
    ELSE IF compiled.program = "empty" THEN [out |-> <<>>, err |-> FALSE]
    ELSE IF value.t = "list" THEN [out |-> value.kids, err |-> FALSE]
    ELSE IF value.t = "dict"
         THEN [out |-> [j \in 1..Len(value.kids) |-> value.kids[j].val], err |-> FALSE]
    ELSE [out |-> <<>>, err |-> TRUE]

\* ------------------------------------------------------------------ loader
\* The attributes __init__ sets on the instance.
__init__(conn_str, database, container, query, jq_schema, enable_cross_partition_query, text_content) ==
    [_conn_str |-> conn_str,
     database |-> database,
     container |-> container,
     query |-> query,
     _enable_cross_partition_query |-> enable_cross_partition_query,
     _jq_schema |-> jq_compile(jq_schema),
     _text_content |-> text_content]

Return(chars) == [kind |-> "return", text |-> chars, exc |-> "", typ |-> ""]
Raise(name, typ) == [kind |-> "raise", text |-> <<>>, exc |-> name, typ |-> typ]
NoPage == [kind |-> "none", text |-> <<>>, exc |-> "", typ |-> ""]

\* _get_text testing for None before the text-mode test.
_get_text_none_first(this, content) ==
    IF content = None THEN Return(<<>>)
    ELSE IF this._text_content /\ ~isinstance(content, "str")
    THEN Raise("ValueError", content.t)
    ELSE IF isinstance(content, "str") THEN Return(content.s)
    ELSE IF isinstance(content, "dict")
         THEN Return(IF Truthy(content) THEN json_dumps(content) ELSE <<>>)
    ELSE Return(str(content))

\* _get_text serializing a str as it serializes a dict.
_get_text_dumps_str(this, content) ==
    IF this._text_content /\ ~isinstance(content, "str")
    THEN Raise("ValueError", content.t)
    ELSE IF isinstance(content, "str") \/ isinstance(content, "dict")
         THEN Return(IF Truthy(content) THEN json_dumps(content) ELSE <<>>)
    ELSE Return(IF content # None THEN str(content) ELSE <<>>)

\* _get_text without the special case of the empty dict.
_get_text_plain_dumps(this, content) ==
    IF this._text_content /\ ~isinstance(content, "str")
    THEN Raise("ValueError", content.t)
    ELSE IF isinstance(content, "str") THEN Return(content.s)
    ELSE IF isinstance(content, "dict") THEN Return(json_dumps(content))
    ELSE Return(IF content # None THEN str(content) ELSE <<>>)

\* _get_text testing the truth value where the code tests `is not None`.
_get_text_falsy(this, content) ==
    IF this._text_content /\ ~isinstance(content, "str")
    THEN Raise("ValueError", content.t)
    ELSE IF isinstance(content, "str") THEN Return(content.s)
    ELSE IF isinstance(content, "dict")
         THEN Return(IF Truthy(content) THEN json_dumps(content) ELSE <<>>)
    ELSE Return(IF Truthy(content) THEN str(content) ELSE <<>>)

\* _get_text(self, sample, metadata): the text returned, or the ValueError
\* raised, whose message names type(content).
_get_text(this, content) ==
    IF this._text_content /\ ~isinstance(content, "str")
    THEN Raise("ValueError", content.t)
    ELSE IF isinstance(content, "str") THEN Return(content.s)
    ELSE IF isinstance(content, "dict")
         THEN Return(IF Truthy(content) THEN json_dumps(content) ELSE <<>>)
    ELSE Return(IF content # None THEN str(content) ELSE <<>>)

Document(page_content, metadata) ==
    [page_content |-> page_content, metadata |-> metadata]

\* dict(source=str(self.file_path), seq_num=i): reading an attribute the
\* instance does not have raises AttributeError.
Metadata(this, k) ==
    IF "file_path" \in DOMAIN this
    THEN [ok |-> TRUE, md |-> [source |-> str(this.file_path), seq_num |-> k]]
    ELSE [ok |-> FALSE, md |-> [source |-> <<>>, seq_num |-> k]]

\* The loop of _parse over the samples still to come: k is the value
\* enumerate binds to i for the next sample, last the value it bound before.
RECURSIVE ParseLoop(_, _, _, _, _)
ParseLoop(this, data, k, last, acc) ==
    IF data.out = <<>>
    THEN [exc |-> IF data.err THEN "ValueError" ELSE "", docs |-> acc, i |-> last]
    ELSE LET md == Metadata(this, k) IN
         IF ~md.ok THEN [exc |-> "AttributeError", docs |-> acc, i |-> k]
         ELSE LET text == _get_text(this, Head(data.out)) IN
              IF text.kind = "raise" THEN [exc |-> text.exc, docs |-> acc, i |-> k]
              ELSE ParseLoop(this, [data EXCEPT !.out = Tail(data.out)], k + 1, k,
                             Append(acc, Document(text.text, md.md)))

\* _parse(self, content, docs): the exception raised ("" for none), docs
\* after the call and the last value of i.
_parse(this, content, acc, last) ==
    LET parsed == json_loads(content) IN
    IF ~parsed.ok THEN [exc |-> "JSONDecodeError", docs |-> acc, i |-> last]
    ELSE ParseLoop(this, jq_input(this._jq_schema, parsed.val), Len(acc) + 1, last, acc)

\* ------------------------------------------------------------------ inputs
Alphabet == {"x", "\"", "\\"}
Strings == UNION {[1..len -> Alphabet] : len \in 0..MaxStrLen}
IntVals == {-1, 0, 7, 120}
Keys == {<<"a">>, <<"b">>, <<>>}

Leaves ==
    {Str(chars) : chars \in Strings} \cup {Int_(k) : k \in IntVals}
    \cup {Bool(b) : b \in BOOLEAN} \cup {None}

\* The values found inside a dict or a list.
KidVals ==
    {Str(<<"\"", "\\">>), Str(<<>>), Int_(-1), Int_(0), Bool(FALSE), Bool(TRUE), None,
     Dict(<<>>), List(<<>>), Dict(<<KV(<<"b">>, Int_(120))>>), List(<<Str(<<"x">>)>>)}

Lists == {List(xs) : xs \in UNION {[1..len -> KidVals] : len \in 0..MaxKids}}

DistinctKeys(ks) == \A a, b \in 1..Len(ks) : a # b => ks[a] # ks[b]
KeySeqs == {ks \in UNION {[1..len -> Keys] : len \in 0..MaxKids} : DistinctKeys(ks)}
Dicts ==
    UNION {{Dict([j \in 1..Len(ks) |-> KV(ks[j], vs[j])]) : vs \in [1..Len(ks) -> KidVals]}
           : ks \in KeySeqs}

\* The samples _get_text is applied to.
Samples == Leaves \cup Lists \cup Dicts

\* What query_items yields: an item's JSON text, or the client raising.
Item(content) == [kind |-> "item", content |-> content]
ClientError == [kind |-> "error", content |-> <<>>]

ItemValues ==
    {Str(<<"x">>), Int_(0), None, Dict(<<>>),
     Dict(<<KV(<<"a">>, Str(<<"x">>)), KV(<<"b">>, Str(<<"y">>))>>),
     List(<<Str(<<>>), None>>)}

Entries == {Item(json_dumps(v)) : v \in ItemValues} \cup {Item(<<"{">>), ClientError}

QueryResults == UNION {[1..len -> Entries] : len \in 0..MaxItems}

Loaders ==
    {__init__("AccountEndpoint=e;AccountKey=k;", "db", "c", "SELECT * FROM c", f, x, tc)
        : f \in Filters, x \in BOOLEAN, tc \in BOOLEAN}

NoResult == [returned |-> FALSE, docs |-> <<>>]
Returned(list) == [returned |-> TRUE, docs |-> list]

\* ------------------------------------------------------------------ load()
Init ==
    /\ loader \in Loaders
    /\ sdk \in BOOLEAN
    /\ pc = "idle"
    /\ query_result = <<>>
    /\ idx = 1
    /\ docs = <<>>
    /\ i = 0
    /\ result = NoResult
    /\ exc = ""
    /\ calls = 0
    /\ tpc = "off"
    /\ sample = None
    /\ page = NoPage

\* load() keeping the document list and the counter of the call before.
LoadBegin_keep ==
    /\ pc \in {"idle", "returned", "raised"}
    /\ calls < MaxCalls
    /\ calls' = calls + 1
    /\ result' = NoResult
    /\ idx' = 1
    /\ IF sdk
       THEN /\ \E qr \in QueryResults : query_result' = qr
            /\ pc' = "iterating"
            /\ exc' = ""
       ELSE /\ query_result' = <<>>
            /\ pc' = "raised"
            /\ exc' = "ImportError"
    /\ UNCHANGED <<loader, sdk, docs, i, textVars>>

\* load() up to the for loop: the import, docs = [], the client, the query.
LoadBegin ==
    /\ pc \in {"idle", "returned", "raised"}
    /\ calls < MaxCalls
    /\ calls' = calls + 1
    /\ result' = NoResult
    /\ docs' = <<>>
    /\ i' = 0
    /\ idx' = 1
    /\ IF sdk
       THEN /\ \E qr \in QueryResults : query_result' = qr
            /\ pc' = "iterating"
            /\ exc' = ""
       ELSE /\ query_result' = <<>>
            /\ pc' = "raised"
            /\ exc' = "ImportError"
    /\ UNCHANGED <<loader, sdk, textVars>>

\* The for loop catching the exception of _parse and returning the
\* documents it has.
LoadItem_partial ==
    /\ pc = "iterating"
    /\ idx <= Len(query_result)
    /\ query_result[idx].kind = "item"
    /\ LET r == _parse(loader, query_result[idx].content, docs, i) IN
       /\ docs' = r.docs
       /\ i' = r.i
       /\ exc' = r.exc
       /\ IF r.exc = ""
          THEN /\ idx' = idx + 1
               /\ UNCHANGED <<pc, result>>
          ELSE /\ pc' = "returned"
               /\ result' = Returned(r.docs)
               /\ UNCHANGED idx
    /\ UNCHANGED <<loader, sdk, query_result, calls, textVars>>

\* One pass of the for loop: query_items yields an item, _parse(item, docs).
LoadItem ==
    /\ pc = "iterating"
    /\ idx <= Len(query_result)
    /\ query_result[idx].kind = "item"
    /\ LET r == _parse(loader, query_result[idx].content, docs, i) IN
       /\ docs' = r.docs
       /\ i' = r.i
       /\ IF r.exc = ""
          THEN /\ idx' = idx + 1
               /\ UNCHANGED <<pc, exc>>
          ELSE /\ pc' = "raised"
               /\ exc' = r.exc
               /\ UNCHANGED idx
    /\ UNCHANGED <<loader, sdk, query_result, result, calls, textVars>>

\* query_items raises while load() iterates it.
LoadClientError ==
    /\ pc = "iterating"
    /\ idx <= Len(query_result)
    /\ query_result[idx].kind = "error"
    /\ pc' = "raised"
    /\ exc' = "CosmosHttpResponseError"
    /\ UNCHANGED <<loader, sdk, query_result, idx, docs, i, result, calls, textVars>>

\* query_items is exhausted: return docs.
LoadReturn ==
    /\ pc = "iterating"
    /\ idx > Len(query_result)
    /\ pc' = "returned"
    /\ result' = Returned(docs)
    /\ UNCHANGED <<loader, sdk, query_result, idx, docs, i, exc, calls, textVars>>

Next == LoadBegin \/ LoadItem \/ LoadClientError \/ LoadReturn

Spec == Init /\ [][Next]_vars

\* ------------------------------------------------------------------ _get_text
InitText ==
    /\ loader \in {l \in Loaders : l._jq_schema.program = "."
                                   /\ l._enable_cross_partition_query}
    /\ sdk = TRUE
    /\ pc = "idle"
    /\ query_result = <<>>
    /\ idx = 1
    /\ docs = <<>>
    /\ i = 0
    /\ result = NoResult
    /\ exc = ""
    /\ calls = 0
    /\ tpc = "ready"
    /\ sample \in Samples
    /\ page = NoPage

GetText ==
    /\ tpc = "ready"
    /\ page' = _get_text(loader, sample)
    /\ tpc' = "done"
    /\ UNCHANGED <<loader, sample, loadVars>>

NextText == GetText

SpecText == InitText /\ [][NextText]_vars

\* ------------------------------------------------------------------ properties
\* The samples the filter produces for the items of a query result, in
\* production order.
RECURSIVE Produced(_, _)
Produced(this, qr) ==
    IF qr = <<>> THEN <<>>
    ELSE jq_input(this._jq_schema, json_loads(Head(qr).content).val).out
         \o Produced(this, Tail(qr))

\* A query result no upstream step fails on, whose samples all have a text.
Clean(this, qr) ==
    /\ \A j \in 1..Len(qr) :
          /\ qr[j].kind = "item"
          /\ json_loads(qr[j].content).ok
          /\ ~jq_input(this._jq_schema, json_loads(qr[j].content).val).err
    /\ \A j \in 1..Len(Produced(this, qr)) :
          _get_text(this, Produced(this, qr)[j]).kind = "return"

CallOver == calls > 0 /\ pc \in {"returned", "raised"}

\* C1: a load() call over a query result whose filter produces N samples
\* returns documents whose seq_num values are 1, 2, ..., N in output order.
SeqNumOneToN ==
    (CallOver /\ sdk /\ Clean(loader, query_result)) =>
        /\ result.returned
        /\ [j \in 1..Len(result.docs) |-> result.docs[j].metadata.seq_num]
             = [j \in 1..Len(Produced(loader, query_result)) |-> j]

\* C2: for a non-empty query result, the list load() returns is as long as
\* the number of samples the filter produced across all items.
LengthEqualsSamples ==
    (CallOver /\ sdk /\ Clean(loader, query_result) /\ query_result # <<>>) =>
        /\ result.returned
        /\ Len(result.docs) = Len(Produced(loader, query_result))

\* C3: building the metadata of a sample succeeds for every loader the
\* constructor builds: load() never raises AttributeError.
MetadataBuilt == exc # "AttributeError"

AllOrNothing ==
    /\ exc # "" => pc = "raised" /\ ~result.returned
    /\ result.returned => pc = "returned" /\ exc = ""

FailedAfterEarlierItems ==
    /\ pc = "raised"
    /\ idx > 1
    /\ ~result.returned

\* C6: no step of load() changes the loader's configuration, and every call
\* starts from an empty document list and a restarted counter, whatever the
\* earlier call left behind.
LoadIndependent ==
    [][/\ loader' = loader
       /\ calls' # calls => docs' = <<>> /\ i' = 0 /\ ~result'.returned
       /\ i' <= Len(docs') + 1]_vars

SecondCallCountsFromOne ==
    /\ calls = 2
    /\ i = 1
    /\ docs = <<>>

\* C7: a string sample is returned verbatim, for both settings of the
\* text-mode flag, the empty string included.
StringVerbatim ==
    (tpc = "done" /\ sample.t = "str") => page = Return(sample.s)

EmptyStringVerbatim ==
    /\ tpc = "done"
    /\ sample = Str(<<>>)
    /\ ~loader._text_content
    /\ page.kind = "return"

\* C8: with text-mode disabled, a non-empty mapping becomes its JSON text,
\* which parses back to an equal mapping, and the empty mapping becomes the
\* empty string, not "{}".
MappingSerialized ==
    (tpc = "done" /\ ~loader._text_content /\ sample.t = "dict") =>
        /\ page.kind = "return"
        /\ sample.kids = <<>> => page.text = <<>>
        /\ sample.kids # <<>> =>
             /\ page.text = json_dumps(sample)
             /\ json_loads(page.text) = [ok |-> TRUE, val |-> sample]

NestedMappingSerialized ==
    /\ tpc = "done"
    /\ ~loader._text_content
    /\ sample.t = "dict"
    /\ Len(sample.kids) = 2
    /\ sample.kids[1].val = Str(<<"\"", "\\">>)
    /\ sample.kids[2].val.t = "dict"
    /\ page.kind = "return"

\* C9: with text-mode disabled, a sample that is neither a string nor a
\* mapping becomes str(sample), except null, which becomes the empty string;
\* null is the only such sample whose text is empty.
OtherValuesToText ==
    (tpc = "done" /\ ~loader._text_content /\ sample.t \notin {"str", "dict"}) =>
        /\ page.kind = "return"
        /\ sample = None => page.text = <<>>
        /\ sample # None => page.text = str(sample) /\ page.text # <<>>

ZeroKeepsItsText ==
    /\ tpc = "done"
    /\ ~loader._text_content
    /\ sample = Int_(0)
    /\ page = Return(<<"0">>)

\* C10: the list load() returns holds the texts of the samples in production
\* order: earlier items first, and within an item the filter's order.
OrderPreserved ==
    (CallOver /\ sdk /\ Clean(loader, query_result)) =>
        /\ result.returned
        /\ [j \in 1..Len(result.docs) |-> result.docs[j].page_content]
             = [j \in 1..Len(Produced(loader, query_result)) |->
                    _get_text(loader, Produced(loader, query_result)[j]).text]

====
